---- MODULE Spec2Model ----
(***************************************************************************)
(* Model of Titas_Vebra/Scripts/csv_actions.py: the six table-cleaning     *)
(* stages remove_empty_rows_and_columns, strip_whitespace,                 *)
(* normalize_missing_values, fix_decimal_commas, extract_numeric_and_unit  *)
(* and convert_units_to_SI, each a function from a table to a table.       *)
(*                                                                         *)
(* A text is a sequence of one-character strings.  The two non-ASCII       *)
(* glyphs the code names are written as the symbols DEG and MICRO.         *)
(* A cell is missing (pd.NA or NaN), a text or a number; a number is an    *)
(* exact fraction n/d in lowest terms (the floating-point rounding of the  *)
(* products is not modelled).  A table is a sequence of columns, each with *)
(* a name, a dtype ("object" or "numeric") and its cells by row position.  *)
(***************************************************************************)
EXTENDS Integers, Sequences, FiniteSets, TLC

VARIABLES df, prev, last, runs, raised

vars == <<df, prev, last, runs, raised>>

\* ------------------------------------------------------------------ text

DEG == "<deg>"

MICRO == "<micro>"

Digits == {"0", "1", "2", "3", "4", "5", "6", "7", "8", "9"}

Whitespace == {" "}

UpperCase == <<"A", "B", "C", "D", "E", "F", "G", "H", "I", "J", "K", "L", "M",
               "N", "O", "P", "Q", "R", "S", "T", "U", "V", "W", "X", "Y", "Z">>

LowerCase == <<"a", "b", "c", "d", "e", "f", "g", "h", "i", "j", "k", "l", "m",
               "n", "o", "p", "q", "r", "s", "t", "u", "v", "w", "x", "y", "z">>

Range(f) == {f[i] : i \in DOMAIN f}

\* str.lower() of one character
LowerChar(c) ==
    IF \E i \in DOMAIN UpperCase : UpperCase[i] = c
    THEN LowerCase[CHOOSE i \in DOMAIN UpperCase : UpperCase[i] = c]
    ELSE c

\* str.lower()
ToLower(s) == [i \in DOMAIN s |-> LowerChar(s[i])]

\* regex ^\s*$
IsBlank(s) == \A i \in DOMAIN s : s[i] \in Whitespace

RECURSIVE LStrip(_)
LStrip(s) ==
    IF s # <<>> /\ Head(s) \in Whitespace THEN LStrip(Tail(s)) ELSE s

RECURSIVE RStrip(_)
RStrip(s) ==
    IF s # <<>> /\ s[Len(s)] \in Whitespace
    THEN RStrip(SubSeq(s, 1, Len(s) - 1))
    ELSE s

\* str.strip()
StrStrip(s) == RStrip(LStrip(s))

\* str.replace(c, r) for a one-character c and a text r
RECURSIVE StrReplace(_, _, _)
StrReplace(s, c, r) ==
    IF s = <<>> THEN <<>>
    ELSE (IF Head(s) = c THEN r ELSE <<Head(s)>>) \o StrReplace(Tail(s), c, r)

\* str.endswith(suffix)
EndsWith(s, suffix) ==
    /\ Len(s) >= Len(suffix)
    /\ SubSeq(s, Len(s) - Len(suffix) + 1, Len(s)) = suffix

\* the first position >= p of s whose character is not in set (Len(s)+1 if none)
RECURSIVE SkipWhile(_, _, _)
SkipWhile(s, p, set) ==
    IF p <= Len(s) /\ s[p] \in set THEN SkipWhile(s, p + 1, set) ELSE p

\* --------------------------------------------------------------- numbers

RECURSIVE GCD(_, _)
GCD(a, b) == IF b = 0 THEN a ELSE GCD(b, a % b)

Abs(x) == IF x < 0 THEN -x ELSE x

\* ---------------------------------------------------------------- cells

PdNA == [k |-> "NA", s |-> <<>>, n |-> 0, d |-> 1]

NaN == [k |-> "nan", s |-> <<>>, n |-> 0, d |-> 1]

Txt(s) == [k |-> "str", s |-> s, n |-> 0, d |-> 1]

\* the number n/d (d > 0), in lowest terms
Num(n, d) ==
    LET g == GCD(Abs(n), d)
    IN [k |-> "num", s |-> <<>>, n |-> n \div g, d |-> d \div g]

\* pd.isna(cell)
IsNA(c) == c.k \in {"NA", "nan"}

IsText(c) == c.k = "str"

IsNum(c) == c.k = "num"

DigitValue(c) == CHOOSE v \in 0..9 : <<"0", "1", "2", "3", "4", "5", "6", "7", "8", "9">>[v + 1] = c

RECURSIVE DigitsValue(_)
DigitsValue(s) ==
    IF s = <<>> THEN 0
    ELSE 10 * DigitsValue(SubSeq(s, 1, Len(s) - 1)) + DigitValue(s[Len(s)])

RECURSIVE Pow10(_)
Pow10(k) == IF k = 0 THEN 1 ELSE 10 * Pow10(k - 1)

\* The reading of a text as a decimal numeral, as float() and pd.to_numeric read
\* it: surrounding whitespace, an optional sign, digits with an optional point.
\* The text "nan" (any case) reads as NaN.  (Exponents, "inf" and digit
\* separators are outside the texts modelled.)
ParseNumber(s) ==
    LET t == StrStrip(s)
        neg == t # <<>> /\ Head(t) = "-"
        u == IF t # <<>> /\ Head(t) \in {"-", "+"} THEN Tail(t) ELSE t
        p == SkipWhile(u, 1, Digits)
        ip == SubSeq(u, 1, p - 1)
        hasPoint == p <= Len(u) /\ u[p] = "."
        q == IF hasPoint THEN SkipWhile(u, p + 1, Digits) ELSE p
        fp == IF hasPoint THEN SubSeq(u, p + 1, q - 1) ELSE <<>>
        ok == q = Len(u) + 1 /\ Len(ip) + Len(fp) >= 1
        mag == DigitsValue(ip \o fp)
    IN IF ToLower(u) = <<"n", "a", "n">> THEN [ok |-> TRUE, val |-> NaN]
       ELSE IF ok
       THEN [ok |-> TRUE, val |-> Num(IF neg THEN -mag ELSE mag, Pow10(Len(fp)))]
       ELSE [ok |-> FALSE, val |-> NaN]

\* pd.to_numeric of one cell: the number, or failure
ToNumeric(c) ==
    IF IsNA(c) THEN [ok |-> TRUE, val |-> NaN]
    ELSE IF IsNum(c) THEN [ok |-> TRUE, val |-> c]
    ELSE ParseNumber(c.s)

\* the text of a missing cell under astype(str)
NAText(c) == IF c.k = "NA" THEN <<"<", "N", "A", ">">> ELSE <<"n", "a", "n">>

\* --------------------------------------------------------------- tables

Col(name, dtype, cells) == [name |-> name, dtype |-> dtype, cells |-> cells]

Names(t) == [i \in DOMAIN t |-> t[i].name]

NRows(t) == IF t = <<>> THEN 0 ELSE Len(t[1].cells)

HasDupNames(t) == \E i, j \in DOMAIN t : i # j /\ t[i].name = t[j].name

HasName(t, name) == \E i \in DOMAIN t : t[i].name = name

IndexOf(t, name) == CHOOSE i \in DOMAIN t : t[i].name = name

\* the subsequence of s at the positions in keep, in order
RECURSIVE KeepAt(_, _, _)
KeepAt(s, i, keep) ==
    IF i > Len(s) THEN <<>>
    ELSE (IF i \in keep THEN <<s[i]>> ELSE <<>>) \o KeepAt(s, i + 1, keep)


\* ------------------------------------------- remove_empty_rows_and_columns

\* df.replace(r'^\s*$', pd.NA, regex=True) on one cell
BlankToNA(c) == IF IsText(c) /\ IsBlank(c.s) THEN PdNA ELSE c

\* df.replace(r'^\s*$', pd.NA, regex=True)
BlanksToNA(t) ==
    [i \in DOMAIN t |-> [t[i] EXCEPT !.cells = [r \in DOMAIN @ |-> BlankToNA(@[r])]]]

\* a slip: any(axis=1) for all(axis=1)
EmptyRows_Any(t) == {r \in 1..NRows(t) : \E i \in DOMAIN t : IsNA(t[i].cells[r])}

\* isna().all(axis=1): the rows all of whose cells are missing
EmptyRows(t) == {r \in 1..NRows(t) : \A i \in DOMAIN t : IsNA(t[i].cells[r])}

\* isna().all(axis=0): the columns all of whose cells are missing
EmptyCols(t) == {i \in DOMAIN t : \A r \in 1..NRows(t) : IsNA(t[i].cells[r])}

\* df.loc[~empty_row_mask, ~empty_col_mask]
DropRowsCols(t, rows, cols) ==
    LET keptCols == KeepAt(t, 1, DOMAIN t \ cols)
    IN [i \in DOMAIN keptCols |->
           [keptCols[i] EXCEPT !.cells = KeepAt(@, 1, (1..NRows(t)) \ rows)]]

remove_empty_rows_and_columns(t) ==
    LET clean == BlanksToNA(t)
    IN DropRowsCols(clean, EmptyRows(clean), EmptyCols(clean))

\* -------------------------------------------------------- strip_whitespace

\* astype(str) of one cell of an object column (whose cells are texts or missing)
AsStr(c) == IF IsNA(c) THEN NAText(c) ELSE c.s

\* df.columns.str.strip()
StripNames(t) == [i \in DOMAIN t |-> [t[i] EXCEPT !.name = StrStrip(@)]]

\* df[col].astype(str).str.strip() on every object column
StripCells(t) ==
    [i \in DOMAIN t |->
        IF t[i].dtype = "object"
        THEN [t[i] EXCEPT !.cells = [r \in DOMAIN @ |-> Txt(StrStrip(AsStr(@[r])))]]
        ELSE t[i]]

\* df[col].dtype of a name two columns carry is an AttributeError
strip_whitespace_raises(t) == HasDupNames(StripNames(t))

strip_whitespace(t) == StripCells(StripNames(t))

\* ------------------------------------------------ normalize_missing_values

\* missing_patterns, in the order of the list: the whitespace pattern, the words
\* matched in any letter case ((?i)), the marks matched as they are
MissingPatterns ==
    << [kind |-> "blank", text |-> <<>>],
       [kind |-> "nocase", text |-> <<"n", "a">>],
       [kind |-> "nocase", text |-> <<"n", "/", "a">>],
       [kind |-> "nocase", text |-> <<"n", "u", "l", "l">>],
       [kind |-> "nocase", text |-> <<"n", "o", "n", "e">>],
       [kind |-> "exact", text |-> <<"?">>],
       [kind |-> "exact", text |-> <<"-">>],
       [kind |-> "exact", text |-> <<".">>] >>

\* a slip: the (?i) flag left out of the word patterns
PatternMatches_CaseSensitive(pat, s) ==
    CASE pat.kind = "blank" -> IsBlank(s)
      [] OTHER -> s = pat.text

\* whether the pattern matches the text (^...$ : the whole text)
PatternMatches(pat, s) ==
    CASE pat.kind = "blank" -> IsBlank(s)
      [] pat.kind = "nocase" -> ToLower(s) = pat.text
      [] OTHER -> s = pat.text

\* df.replace(pattern, pd.NA, regex=True) on one cell
ReplaceCell(pat, c) == IF IsText(c) /\ PatternMatches(pat, c.s) THEN PdNA ELSE c

\* the loop over missing_patterns, from pattern k on
RECURSIVE ReplaceFrom(_, _)
ReplaceFrom(k, c) ==
    IF k > Len(MissingPatterns) THEN c
    ELSE ReplaceFrom(k + 1, ReplaceCell(MissingPatterns[k], c))

NormalizeCell(c) == ReplaceFrom(1, c)

normalize_missing_values(t) ==
    [i \in DOMAIN t |-> [t[i] EXCEPT !.cells = [r \in DOMAIN @ |-> NormalizeCell(@[r])]]]

\* ------------------------------------------------------ fix_decimal_commas

\* a slip: the lookahead (?=\d) left out
RECURSIVE SubCommas_NoLookahead(_, _)
SubCommas_NoLookahead(s, p) ==
    IF p > Len(s) THEN <<>>
    ELSE LET hit == s[p] = "," /\ p > 1 /\ s[p - 1] \in Digits
         IN <<IF hit THEN "." ELSE s[p]>> \o SubCommas_NoLookahead(s, p + 1)

\* re.sub(r"(?<=\d),(?=\d)", ".", s), scanning from position p
RECURSIVE SubCommas(_, _)
SubCommas(s, p) ==
    IF p > Len(s) THEN <<>>
    ELSE LET hit == /\ s[p] = ","
                    /\ p > 1 /\ s[p - 1] \in Digits
                    /\ p < Len(s) /\ s[p + 1] \in Digits
         IN <<IF hit THEN "." ELSE s[p]>> \o SubCommas(s, p + 1)

\* Series.str.replace on one cell: a cell that is no text gives NaN
StrReplaceCell(c) == IF IsText(c) THEN Txt(SubCommas(c.s, 1)) ELSE NaN

\* pd.to_numeric(series, errors="ignore"): the numbers if every cell reads as
\* one, else the series as it is
ToNumericIgnore(col) ==
    IF \A r \in DOMAIN col.cells : ToNumeric(col.cells[r]).ok
    THEN Col(col.name, "numeric", [r \in DOMAIN col.cells |-> ToNumeric(col.cells[r]).val])
    ELSE col

\* a slip: errors="ignore" for errors="coerce"
ToNumericCoerce_Ignore(col) == ToNumericIgnore(col)

\* pd.to_numeric(series, errors="coerce"): a cell that does not read as a number
\* becomes NaN
ToNumericCoerce(col) ==
    Col(col.name, "numeric", [r \in DOMAIN col.cells |-> ToNumeric(col.cells[r]).val])

FixColumn(col) ==
    IF col.dtype = "object"
    THEN ToNumericIgnore([col EXCEPT !.cells = [r \in DOMAIN @ |-> StrReplaceCell(@[r])]])
    ELSE col

fix_decimal_commas_raises(t) == HasDupNames(t)

fix_decimal_commas(t) == [i \in DOMAIN t |-> FixColumn(t[i])]

\* ------------------------------------------------ extract_numeric_and_unit

Letters == Range(UpperCase) \cup Range(LowerCase)

\* the class [A-Za-z<micro><deg>%] of the pattern
UnitChars == Letters \cup {MICRO, DEG, "%"}

\* pattern.match(s) for ^\s*([0-9]+[.,]?[0-9]*)\s*([A-Za-z<micro><deg>%]+)\s*$ :
\* whether it matches, and its two groups
PatternMatch(s) ==
    LET p0 == SkipWhile(s, 1, Whitespace)
        p1 == SkipWhile(s, p0, Digits)
        p2 == IF p1 <= Len(s) /\ s[p1] \in {".", ","} THEN p1 + 1 ELSE p1
        p3 == SkipWhile(s, p2, Digits)
        p4 == SkipWhile(s, p3, Whitespace)
        p5 == SkipWhile(s, p4, UnitChars)
        p6 == SkipWhile(s, p5, Whitespace)
    IN IF p1 > p0 /\ p5 > p4 /\ p6 = Len(s) + 1
       THEN [ok |-> TRUE, num |-> SubSeq(s, p0, p3 - 1), unit |-> SubSeq(s, p4, p5 - 1)]
       ELSE [ok |-> FALSE, num |-> <<>>, unit |-> <<>>]

\* series.str.extract(pattern) on one cell of astype(str)
Extracted(c) == PatternMatch(AsStr(c))

\* pd.to_numeric(extracted[0].str.replace(",", "."), errors="coerce") on one cell
ExtractedValue(c) ==
    IF Extracted(c).ok
    THEN ToNumeric(Txt(StrReplace(Extracted(c).num, ",", <<".">>))).val
    ELSE NaN

\* extracted[1] on one cell
ExtractedUnit(c) == IF Extracted(c).ok THEN Txt(Extracted(c).unit) ELSE NaN

\* not extracted.isna().all().all()
AnyMatch(col) == \E r \in DOMAIN col.cells : Extracted(col.cells[r]).ok

ValueSuffix == <<"_", "v", "a", "l", "u", "e">>

UnitSuffix == <<"_", "u", "n", "i", "t">>

\* df[name] = column: in place when the name exists, else appended
Assign(frame, col) ==
    IF HasName(frame, col.name)
    THEN [frame EXCEPT ![IndexOf(frame, col.name)] = col]
    ELSE Append(frame, col)

\* the loop over the columns of the input, from column i on: frame is df_clean,
\* order is new_columns_order
RECURSIVE ExtractLoop(_, _, _, _)
ExtractLoop(names, i, frame, order) ==
    IF i > Len(names) THEN [frame |-> frame, order |-> order]
    ELSE LET col == frame[IndexOf(frame, names[i])]
         IN IF col.dtype = "object" /\ AnyMatch(col)
            THEN LET num_col == Col(col.name \o ValueSuffix, "numeric",
                                    [r \in DOMAIN col.cells |-> ExtractedValue(col.cells[r])])
                     unit_col == Col(col.name \o UnitSuffix, "object",
                                     [r \in DOMAIN col.cells |-> ExtractedUnit(col.cells[r])])
                 IN ExtractLoop(names, i + 1, Assign(Assign(frame, num_col), unit_col),
                                order \o <<num_col.name, unit_col.name>>)
            ELSE ExtractLoop(names, i + 1, frame, Append(order, col.name))

\* df_clean[new_columns_order]
SelectColumns(frame, order) == [j \in DOMAIN order |-> frame[IndexOf(frame, order[j])]]

extract_numeric_and_unit_raises(t) == HasDupNames(t)

extract_numeric_and_unit(t) ==
    LET done == ExtractLoop(Names(t), 1, t, <<>>)
    IN SelectColumns(done.frame, done.order)

\* ----------------------------------------------------- convert_units_to_SI

\* a slip: the factors of "mm" and "m" exchanged
length_units_swapped ==
    << [u |-> <<"m", "m">>, n |-> 1, d |-> 1],
       [u |-> <<"c", "m">>, n |-> 1, d |-> 100],
       [u |-> <<"m">>, n |-> 1, d |-> 1000],
       [u |-> <<"k", "m">>, n |-> 1000, d |-> 1] >>

length_units ==
    << [u |-> <<"m", "m">>, n |-> 1, d |-> 1000],
       [u |-> <<"c", "m">>, n |-> 1, d |-> 100],
       [u |-> <<"m">>, n |-> 1, d |-> 1],
       [u |-> <<"k", "m">>, n |-> 1000, d |-> 1] >>

mass_units ==
    << [u |-> <<"m", "g">>, n |-> 1, d |-> 1000000],
       [u |-> <<"g">>, n |-> 1, d |-> 1000],
       [u |-> <<"k", "g">>, n |-> 1, d |-> 1],
       [u |-> <<"t">>, n |-> 1000, d |-> 1] >>

time_units ==
    << [u |-> <<"m", "s">>, n |-> 1, d |-> 1000],
       [u |-> <<"s">>, n |-> 1, d |-> 1],
       [u |-> <<"m", "i", "n">>, n |-> 60, d |-> 1],
       [u |-> <<"h">>, n |-> 3600, d |-> 1] >>

pressure_units ==
    << [u |-> <<"p", "a">>, n |-> 1, d |-> 1],
       [u |-> <<"k", "p", "a">>, n |-> 1000, d |-> 1],
       [u |-> <<"m", "p", "a">>, n |-> 1000000, d |-> 1],
       [u |-> <<"b", "a", "r">>, n |-> 100000, d |-> 1],
       [u |-> <<"m", "b", "a", "r">>, n |-> 100, d |-> 1],
       [u |-> <<"a", "t", "m">>, n |-> 101325, d |-> 1],
       [u |-> <<"p", "s", "i">>, n |-> 6894757, d |-> 1000] >>

force_units ==
    << [u |-> <<"n">>, n |-> 1, d |-> 1],
       [u |-> <<"k", "n">>, n |-> 1000, d |-> 1] >>

energy_units ==
    << [u |-> <<"j">>, n |-> 1, d |-> 1],
       [u |-> <<"k", "j">>, n |-> 1000, d |-> 1] >>

\* u in units
InUnits(units, u) == \E i \in DOMAIN units : units[i].u = u

\* v * units[u]  (NaN stays NaN)
Scaled(v, units, u) ==
    LET e == units[CHOOSE i \in DOMAIN units : units[i].u = u]
    IN IF IsNA(v) THEN NaN ELSE Num(v.n * e.n, v.d * e.d)

\* v + 273.15
CelsiusToK(v) == IF IsNA(v) THEN NaN ELSE Num(v.n * 100 + 27315 * v.d, v.d * 100)

\* (v - 32.0) * 5.0 / 9.0 + 273.15
FahrenheitToK(v) ==
    IF IsNA(v) THEN NaN
    ELSE Num((v.n - 32 * v.d) * 500 + 27315 * 9 * v.d, v.d * 900)

\* v / 100.0
Percent(v) == IF IsNA(v) THEN NaN ELSE Num(v.n, v.d * 100)

\* float(value): the number, or ValueError
Float(value) == IF IsNum(value) THEN [ok |-> TRUE, val |-> value] ELSE ParseNumber(value.s)

\* a slip: the lower() left out
NormalizeUnit_NoLower(s) ==
    StrReplace(StrReplace(StrStrip(s), DEG, <<"d", "e", "g">>), MICRO, <<"u">>)

\* str(unit).strip(), "<deg>" -> "deg", "<micro>" -> "u", lower()
NormalizeUnit(s) ==
    ToLower(StrReplace(StrReplace(StrStrip(s), DEG, <<"d", "e", "g">>), MICRO, <<"u">>))

_convert_one(value, unit) ==
    IF IsNA(value) \/ IsNA(unit) THEN <<value, unit>>
    ELSE IF ~Float(value).ok THEN <<value, unit>>
    ELSE LET v == Float(value).val
             u == NormalizeUnit(unit.s)
         IN CASE u \in {<<"d", "e", "g", "c">>, <<"c">>} -> <<CelsiusToK(v), Txt(<<"K">>)>>
              [] u \in {<<"d", "e", "g", "f">>, <<"f">>} -> <<FahrenheitToK(v), Txt(<<"K">>)>>
              [] u \in {<<"k">>, <<"d", "e", "g", "k">>} -> <<v, Txt(<<"K">>)>>
              [] InUnits(length_units, u) -> <<Scaled(v, length_units, u), Txt(<<"m">>)>>
              [] InUnits(mass_units, u) -> <<Scaled(v, mass_units, u), Txt(<<"k", "g">>)>>
              [] InUnits(time_units, u) -> <<Scaled(v, time_units, u), Txt(<<"s">>)>>
              [] InUnits(pressure_units, u) -> <<Scaled(v, pressure_units, u), Txt(<<"P", "a">>)>>
              [] InUnits(force_units, u) -> <<Scaled(v, force_units, u), Txt(<<"N">>)>>
              [] InUnits(energy_units, u) -> <<Scaled(v, energy_units, u), Txt(<<"J">>)>>
              [] u \in {<<"%">>, <<"p", "c", "t">>} -> <<Percent(v), Txt(<<"1">>)>>
              [] OTHER -> <<value, unit>>

\* col[:-6] + "_unit"
UnitColName(name) == SubSeq(name, 1, Len(name) - 6) \o UnitSuffix

\* the rows of one pair: every row through _convert_one, then the value column
\* through pd.to_numeric(errors="coerce")
ConvertPair(frame, vi, ui) ==
    LET out == [r \in DOMAIN frame[vi].cells |->
                   _convert_one(frame[vi].cells[r], frame[ui].cells[r])]
    IN [frame EXCEPT
          ![vi] = ToNumericCoerce([@ EXCEPT !.cells = [r \in DOMAIN out |-> out[r][1]]]),
          ![ui] = [@ EXCEPT !.cells = [r \in DOMAIN out |-> out[r][2]]]]

\* a slip: the closing pd.to_numeric one indent out, so run for every <base>_value
\* column, paired or not
RECURSIVE ConvertLoop_CoerceEvery(_, _, _)
ConvertLoop_CoerceEvery(names, i, frame) ==
    IF i > Len(names) THEN frame
    ELSE IF EndsWith(names[i], ValueSuffix)
         THEN ConvertLoop_CoerceEvery(names, i + 1,
                 IF HasName(frame, UnitColName(names[i]))
                 THEN ConvertPair(frame, i, IndexOf(frame, UnitColName(names[i])))
                 ELSE [frame EXCEPT ![i] = ToNumericCoerce(@)])
         ELSE ConvertLoop_CoerceEvery(names, i + 1, frame)

\* the loop over cols, from column i on
RECURSIVE ConvertLoop(_, _, _)
ConvertLoop(names, i, frame) ==
    IF i > Len(names) THEN frame
    ELSE IF EndsWith(names[i], ValueSuffix) /\ HasName(frame, UnitColName(names[i]))
         THEN ConvertLoop(names, i + 1,
                          ConvertPair(frame, i, IndexOf(frame, UnitColName(names[i]))))
         ELSE ConvertLoop(names, i + 1, frame)

\* df[[col, unit_col]] of a name two columns carry has more than two columns,
\* which the loop's unpacking refuses
convert_units_to_SI_raises(t) ==
    \E i, j \in DOMAIN t :
        /\ EndsWith(t[i].name, ValueSuffix)
        /\ t[j].name = UnitColName(t[i].name)
        /\ \E k \in DOMAIN t : (k # i /\ t[k].name = t[i].name) \/ (k # j /\ t[k].name = t[j].name)

convert_units_to_SI(t) == ConvertLoop(Names(t), 1, t)

\* ------------------------------------------------------------ the inputs

MaxRows == 2

MaxRuns == 2

\* the sequences of 1..MaxRows rows drawn from pool
RowSeqs(pool) == UNION {[1..n -> pool] : n \in 1..MaxRows}

\* the dtype pandas gives a column of these cells
DTypeOf(cells) ==
    IF \A r \in DOMAIN cells : IsNum(cells[r]) \/ cells[r] = NaN THEN "numeric" ELSE "object"

MkCol(name, cells) == Col(name, DTypeOf(cells), cells)

\* rows <<value, unit>> of a value/unit pair, by unit category

TemperatureRows ==
    {
      <<Num(50, 1), Txt(<<"d", "e", "g", "C">>)>>, <<Num(50, 1), Txt(<<"C">>)>>, <<Num(50, 1), Txt(<<DEG, "C">>)>>,
      <<Num(50, 1), Txt(<<"d", "e", "g", "F">>)>>, <<Num(50, 1), Txt(<<"F">>)>>, <<Num(50, 1), Txt(<<DEG, "f">>)>>,
      <<Num(50, 1), Txt(<<"K">>)>>, <<Num(50, 1), Txt(<<"d", "e", "g", "K">>)>>, <<Num(50, 1), Txt(<<"k">>)>> }

LengthRows ==
    {
      <<Num(50, 1), Txt(<<"m", "m">>)>>, <<Num(50, 1), Txt(<<"c", "m">>)>>, <<Num(50, 1), Txt(<<"m">>)>>,
      <<Num(50, 1), Txt(<<"k", "m">>)>>, <<Num(50, 1), Txt(<<" ", "M", "M", " ">>)>>, <<Num(50, 1), Txt(<<MICRO, "m">>)>> }

MassRows ==
    {
      <<Num(50, 1), Txt(<<"m", "g">>)>>, <<Num(50, 1), Txt(<<"g">>)>>, <<Num(50, 1), Txt(<<"k", "g">>)>>,
      <<Num(50, 1), Txt(<<"t">>)>>, <<Num(50, 1), Txt(<<"K", "g">>)>> }

TimeRows ==
    {
      <<Num(50, 1), Txt(<<"m", "s">>)>>, <<Num(50, 1), Txt(<<"s">>)>>, <<Num(50, 1), Txt(<<"m", "i", "n">>)>>,
      <<Num(50, 1), Txt(<<"h">>)>>, <<Num(50, 1), Txt(<<"H">>)>> }

PressureRows ==
    {
      <<Num(50, 1), Txt(<<"P", "a">>)>>, <<Num(50, 1), Txt(<<"k", "P", "a">>)>>, <<Num(50, 1), Txt(<<"M", "P", "a">>)>>,
      <<Num(50, 1), Txt(<<"b", "a", "r">>)>>, <<Num(50, 1), Txt(<<"m", "b", "a", "r">>)>>, <<Num(50, 1), Txt(<<"a", "t", "m">>)>>,
      <<Num(50, 1), Txt(<<"p", "s", "i">>)>> }

ForceEnergyRows ==
    {
      <<Num(50, 1), Txt(<<"N">>)>>, <<Num(50, 1), Txt(<<"k", "N">>)>>, <<Num(50, 1), Txt(<<"J">>)>>,
      <<Num(50, 1), Txt(<<"k", "J">>)>>, <<Num(50, 1), Txt(<<"%">>)>>, <<Num(50, 1), Txt(<<"p", "c", "t">>)>>,
      <<Num(50, 1), Txt(<<"1">>)>> }

ValueRows ==
    {
      <<Num(0, 1), Txt(<<"C">>)>>, <<Num(0, 1), Txt(<<"F">>)>>, <<Num(32, 1), Txt(<<"C">>)>>,
      <<Num(32, 1), Txt(<<"F">>)>>, <<Num(25, 2), Txt(<<"C">>)>>, <<Num(25, 2), Txt(<<"F">>)>>,
      <<Txt(<<"5">>), Txt(<<"C">>)>>, <<Txt(<<"5">>), Txt(<<"F">>)>>, <<Txt(<<"1", ".", "5">>), Txt(<<"C">>)>>,
      <<Txt(<<"1", ".", "5">>), Txt(<<"F">>)>> }

\* rows every table may hold: a missing value, a missing unit, a magnitude that is
\* no number, an unknown unit
CommonRows ==
    {
      <<NaN, Txt(<<"m", "m">>)>>, <<Num(5, 1), PdNA>>,
      <<Txt(<<"a", "b", "c">>), Txt(<<"C">>)>>, <<Num(5, 1), Txt(<<"l", "i", "g", "h", "t", "y", "e", "a", "r">>)>>,
      <<PdNA, Txt(<<"%">>)>> }

ConvertPools ==
    {TemperatureRows, LengthRows, MassRows, TimeRows, PressureRows, ForceEnergyRows, ValueRows}


NameA == <<"a">>

NameB == <<"b">>

NameC == <<"c">>

\* the second pair of a table and its lone <base>_value column, by row position
SecondPairRows ==
    << <<Num(20, 1), Txt(<<"C">>)>>, <<Num(3, 1), Txt(<<"k", "m">>)>>, <<NaN, Txt(<<"s">>)>>, <<Num(7, 1), Txt(<<"F">>)>> >>

LoneValueCells == << Txt(<<"7">>), Txt(<<"a", "b", "c">>), PdNA, Txt(<<"1", ",", "5">>) >>

\* a table with the pair a_value/a_unit holding rows, a lone c_value column, and
\* the pair b_unit/b_value
ConvertTable(rows) ==
    << MkCol(NameA \o ValueSuffix, [r \in DOMAIN rows |-> rows[r][1]]),
       MkCol(NameA \o UnitSuffix, [r \in DOMAIN rows |-> rows[r][2]]),
       Col(NameC \o ValueSuffix, "object", [r \in DOMAIN rows |-> LoneValueCells[r]]),
       Col(NameB \o UnitSuffix, "object", [r \in DOMAIN rows |-> SecondPairRows[r][2]]),
       MkCol(NameB \o ValueSuffix, [r \in DOMAIN rows |-> SecondPairRows[r][1]]) >>

ConvertTables ==
    {ConvertTable(rows) : rows \in UNION {RowSeqs(pool \cup CommonRows) : pool \in ConvertPools}}

\* ------------------------------------------------------------- the stages

\* One call of a stage on the current table: the table it returns becomes the
\* current one; a call that raises returns nothing and ends the run.
Run(stage, raises, result) ==
    /\ ~raised
    /\ prev' = df
    /\ last' = stage
    /\ runs' = runs + 1
    /\ raised' = raises
    /\ df' = IF raises THEN df ELSE result

Load(tables) ==
    /\ df \in tables
    /\ prev = df
    /\ last = "load"
    /\ runs = 0
    /\ raised = FALSE

RemoveEmpty ==
    /\ runs < MaxRuns
    /\ Run("remove_empty_rows_and_columns", FALSE, remove_empty_rows_and_columns(df))

Strip ==
    /\ runs < MaxRuns
    /\ Run("strip_whitespace", strip_whitespace_raises(df), strip_whitespace(df))

NormalizeMissing ==
    /\ runs < MaxRuns
    /\ Run("normalize_missing_values", FALSE, normalize_missing_values(df))

FixDecimal ==
    /\ runs < MaxRuns
    /\ Run("fix_decimal_commas", fix_decimal_commas_raises(df), fix_decimal_commas(df))

Extract ==
    /\ runs < MaxRuns
    /\ Run("extract_numeric_and_unit", extract_numeric_and_unit_raises(df),
           extract_numeric_and_unit(df))

Convert ==
    /\ runs < MaxRuns
    /\ Run("convert_units_to_SI", convert_units_to_SI_raises(df), convert_units_to_SI(df))

\* convert_units_to_SI on tables holding value/unit pairs
InitConvert == Load(ConvertTables)

SpecConvert == InitConvert /\ [][Convert]_vars



\* ---------------------------------------------- the inputs of the other stages

NameX == <<"x">>

NameY == <<"y">>

NameZ == <<"z">>

\* rows <<x, y, z>> of a table with two text columns and a numeric one
PruneRows ==
    {<<cx, cy, cz>> : cx \in {PdNA, Txt(<<" ">>), Txt(<<"a">>)}, cy \in {Txt(<<>>), Txt(<<" ", " ">>), Txt(<<" ", "b">>)}, cz \in {NaN, Num(1, 1)}}

PruneTable(rows) ==
    << Col(NameX, "object", [r \in DOMAIN rows |-> rows[r][1]]),
       Col(NameY, "object", [r \in DOMAIN rows |-> rows[r][2]]),
       Col(NameZ, "numeric", [r \in DOMAIN rows |-> rows[r][3]]) >>

PruneTables == {PruneTable(rows) : rows \in RowSeqs(PruneRows)}

\* cells of a text column: the sentinels in several letter cases, with and without
\* surrounding whitespace, and texts that only resemble them
MissingCells ==
    {
      Txt(<<"n", "a">>), Txt(<<"N", "A">>), Txt(<<"N", "a">>), Txt(<<" ", "n", "a">>),
      Txt(<<"N", "/", "A">>), Txt(<<"n", "/", "a", " ">>), Txt(<<"n", "u", "l", "l">>), Txt(<<"N", "U", "L", "L">>),
      Txt(<<"N", "o", "n", "e">>), Txt(<<"n", "o", "n", "e">>), Txt(<<"?">>), Txt(<<"-">>),
      Txt(<<".">>), Txt(<<" ", "?", " ">>), Txt(<<>>), Txt(<<" ">>),
      Txt(<<"n", "a", "n">>), Txt(<<"x">>), Txt(<<"n", " ", "a">>), Txt(<<"-", "1">>),
      Txt(<<".", ".">>), PdNA }

\* the numeric column beside it, by row position
CountCells == << Num(1, 1), NaN, Num(3, 1), Num(4, 1) >>

MissingTable(cells) ==
    << Col(NameX, "object", cells),
       Col(NameY, "numeric", [r \in DOMAIN cells |-> CountCells[r]]) >>

MissingTables == {MissingTable(cells) : cells \in RowSeqs(MissingCells)}

\* cells of a text column: decimal commas, grouped thousands, commas that are not
\* between digits
DecimalCells ==
    {
      Txt(<<"1", ",", "2", "5">>), Txt(<<"1", ",", "2", "3", "4", ",", "5", "6", "7">>), Txt(<<"1", "2", ",", "3", "4", "5", ",", "6", "7", "8">>), Txt(<<"a", ",", "b">>),
      Txt(<<"1", ",", "a">>), Txt(<<",", "5">>), Txt(<<"5", ",">>), Txt(<<"1", "2">>),
      Txt(<<"1", ".", "5">>), Txt(<<"1", ",", "2">>), Txt(<<"x">>), Txt(<<"1", ",", " ", "2">>),
      Txt(<<"3", ",", "5", " ", "k", "g">>), Txt(<<"1", ",", "2", "3", "4">>), PdNA }

\* the text column beside it, all numerals, by row position
NumeralCells == << Txt(<<"2", ",", "5">>), Txt(<<"7">>), Txt(<<"0", ",", "5">>), Txt(<<"1", "0">>) >>

DecimalTable(cells) ==
    << Col(NameX, "object", cells),
       Col(NameY, "object", [r \in DOMAIN cells |-> NumeralCells[r]]),
       Col(NameZ, "numeric", [r \in DOMAIN cells |-> CountCells[r]]) >>

DecimalTables == {DecimalTable(cells) : cells \in RowSeqs(DecimalCells)}

\* rows <<first, second>> of the two text columns of a table to extract from
ExtractRows ==
    {<<c1, c2>> : c1 \in
        {
          Txt(<<"1", "2", ".", "5", " ", "m", "m">>), Txt(<<"3", ",", "5", "k", "g">>), Txt(<<"a", "b", "c">>), PdNA,
          Txt(<<"7">>), Txt(<<" ", "2", "0", " ", DEG, "C", " ">>), Txt(<<"5", " ", "%">>) },
                  c2 \in {Txt(<<"5", " ", "C">>), Txt(<<"n">>), PdNA}}

\* the names of the two text columns: apart, or one named as a column the other
\* gives rise to, or padded, or the same once trimmed
ExtractNames ==
    { <<NameX, NameY>>,
      <<NameX, NameX \o ValueSuffix>>,
      <<NameX \o ValueSuffix, NameX>>,
      <<NameX, NameX \o UnitSuffix>>,
      <<NameY \o UnitSuffix, NameX>>,
      <<<<" ", "x">>, NameY>>,
      <<<<" ", "x">>, NameX>> }

ExtractTable(names, rows) ==
    << Col(names[1], "object", [r \in DOMAIN rows |-> rows[r][1]]),
       Col(NameZ, "numeric", [r \in DOMAIN rows |-> CountCells[r]]),
       Col(names[2], "object", [r \in DOMAIN rows |-> rows[r][2]]) >>

ExtractTables ==
    {ExtractTable(names, rows) : names \in ExtractNames, rows \in RowSeqs(ExtractRows)}

\* rows <<first, second>> of a raw table, every cell a text as read from a file
RawRows ==
    {<<c1, c2>> : c1 \in {Txt(<<" ", "1", "2", ".", "5", " ", "m", "m", " ">>), Txt(<<"N", "/", "A">>), Txt(<<" ">>), Txt(<<"3", ",", "5", " ", "k", "g">>), Txt(<<"0", " ", "C">>), Txt(<<"a", "b", "c">>)},
                  c2 \in {Txt(<<"1", ",", "5">>), Txt(<<" ">>), Txt(<<"n", "a">>), Txt(<<"5", "0", " ", "%">>)}}

\* the names of its columns: plain, padded, or colliding once trimmed
RawNames == { <<NameX, NameY>>, <<<<" ", "x">>, NameY>>, <<<<"x", " ">>, NameX>> }

RawTable(names, rows) ==
    << Col(names[1], "object", [r \in DOMAIN rows |-> rows[r][1]]),
       Col(names[2], "object", [r \in DOMAIN rows |-> rows[r][2]]) >>

RawTables == {RawTable(names, rows) : names \in RawNames, rows \in RowSeqs(RawRows)}

\* --------------------------------------------------------- specifications

\* remove_empty_rows_and_columns on tables with blank and missing cells
InitPrune == Load(PruneTables)

SpecPrune == InitPrune /\ [][RemoveEmpty]_vars

\* normalize_missing_values on tables with sentinel texts
InitMissing == Load(MissingTables)

SpecMissing == InitMissing /\ [][NormalizeMissing]_vars

\* fix_decimal_commas on tables with commas in their texts
InitDecimal == Load(DecimalTables)

SpecDecimal == InitDecimal /\ [][FixDecimal]_vars

\* strip_whitespace and extract_numeric_and_unit on tables with numeral+unit texts
InitExtract == Load(ExtractTables)

NextExtract == Strip \/ Extract

SpecExtract == InitExtract /\ [][NextExtract]_vars

\* the six stages run once each, in pipeline order, on a raw table
PipeRemoveEmpty ==
    /\ last = "load"
    /\ Run("remove_empty_rows_and_columns", FALSE, remove_empty_rows_and_columns(df))

PipeStrip ==
    /\ last = "remove_empty_rows_and_columns"
    /\ Run("strip_whitespace", strip_whitespace_raises(df), strip_whitespace(df))

PipeNormalizeMissing ==
    /\ last = "strip_whitespace"
    /\ Run("normalize_missing_values", FALSE, normalize_missing_values(df))

PipeFixDecimal ==
    /\ last = "normalize_missing_values"
    /\ Run("fix_decimal_commas", fix_decimal_commas_raises(df), fix_decimal_commas(df))

PipeExtract ==
    /\ last = "fix_decimal_commas"
    /\ Run("extract_numeric_and_unit", extract_numeric_and_unit_raises(df),
           extract_numeric_and_unit(df))

PipeConvert ==
    /\ last = "extract_numeric_and_unit"
    /\ Run("convert_units_to_SI", convert_units_to_SI_raises(df), convert_units_to_SI(df))

InitPipeline == Load(RawTables)

NextPipeline ==
    \/ PipeRemoveEmpty
    \/ PipeStrip
    \/ PipeNormalizeMissing
    \/ PipeFixDecimal
    \/ PipeExtract
    \/ PipeConvert

SpecPipeline == InitPipeline /\ [][NextPipeline]_vars

\* ------------------------------------------------------------- the claims

\* exact arithmetic on numbers, for stating what a conversion must give
RAdd(a, b) == Num(a.n * b.d + b.n * a.d, a.d * b.d)

RSub(a, b) == Num(a.n * b.d - b.n * a.d, a.d * b.d)

RMul(a, b) == Num(a.n * b.n, a.d * b.d)

\* the conversion table of the specification: normalized token, transform,
\* scale n/d, canonical unit
SITable ==
    {
      [tok |-> <<"d", "e", "g", "c">>, kind |-> "celsius", n |-> 1, d |-> 1, canon |-> <<"K">>],
      [tok |-> <<"c">>, kind |-> "celsius", n |-> 1, d |-> 1, canon |-> <<"K">>],
      [tok |-> <<"d", "e", "g", "f">>, kind |-> "fahrenheit", n |-> 1, d |-> 1, canon |-> <<"K">>],
      [tok |-> <<"f">>, kind |-> "fahrenheit", n |-> 1, d |-> 1, canon |-> <<"K">>],
      [tok |-> <<"k">>, kind |-> "scale", n |-> 1, d |-> 1, canon |-> <<"K">>],
      [tok |-> <<"d", "e", "g", "k">>, kind |-> "scale", n |-> 1, d |-> 1, canon |-> <<"K">>],
      [tok |-> <<"m", "m">>, kind |-> "scale", n |-> 1, d |-> 1000, canon |-> <<"m">>],
      [tok |-> <<"c", "m">>, kind |-> "scale", n |-> 1, d |-> 100, canon |-> <<"m">>],
      [tok |-> <<"m">>, kind |-> "scale", n |-> 1, d |-> 1, canon |-> <<"m">>],
      [tok |-> <<"k", "m">>, kind |-> "scale", n |-> 1000, d |-> 1, canon |-> <<"m">>],
      [tok |-> <<"m", "g">>, kind |-> "scale", n |-> 1, d |-> 1000000, canon |-> <<"k", "g">>],
      [tok |-> <<"g">>, kind |-> "scale", n |-> 1, d |-> 1000, canon |-> <<"k", "g">>],
      [tok |-> <<"k", "g">>, kind |-> "scale", n |-> 1, d |-> 1, canon |-> <<"k", "g">>],
      [tok |-> <<"t">>, kind |-> "scale", n |-> 1000, d |-> 1, canon |-> <<"k", "g">>],
      [tok |-> <<"m", "s">>, kind |-> "scale", n |-> 1, d |-> 1000, canon |-> <<"s">>],
      [tok |-> <<"s">>, kind |-> "scale", n |-> 1, d |-> 1, canon |-> <<"s">>],
      [tok |-> <<"m", "i", "n">>, kind |-> "scale", n |-> 60, d |-> 1, canon |-> <<"s">>],
      [tok |-> <<"h">>, kind |-> "scale", n |-> 3600, d |-> 1, canon |-> <<"s">>],
      [tok |-> <<"p", "a">>, kind |-> "scale", n |-> 1, d |-> 1, canon |-> <<"P", "a">>],
      [tok |-> <<"k", "p", "a">>, kind |-> "scale", n |-> 1000, d |-> 1, canon |-> <<"P", "a">>],
      [tok |-> <<"m", "p", "a">>, kind |-> "scale", n |-> 1000000, d |-> 1, canon |-> <<"P", "a">>],
      [tok |-> <<"b", "a", "r">>, kind |-> "scale", n |-> 100000, d |-> 1, canon |-> <<"P", "a">>],
      [tok |-> <<"m", "b", "a", "r">>, kind |-> "scale", n |-> 100, d |-> 1, canon |-> <<"P", "a">>],
      [tok |-> <<"a", "t", "m">>, kind |-> "scale", n |-> 101325, d |-> 1, canon |-> <<"P", "a">>],
      [tok |-> <<"p", "s", "i">>, kind |-> "scale", n |-> 6894757, d |-> 1000, canon |-> <<"P", "a">>],
      [tok |-> <<"n">>, kind |-> "scale", n |-> 1, d |-> 1, canon |-> <<"N">>],
      [tok |-> <<"k", "n">>, kind |-> "scale", n |-> 1000, d |-> 1, canon |-> <<"N">>],
      [tok |-> <<"j">>, kind |-> "scale", n |-> 1, d |-> 1, canon |-> <<"J">>],
      [tok |-> <<"k", "j">>, kind |-> "scale", n |-> 1000, d |-> 1, canon |-> <<"J">>],
      [tok |-> <<"%">>, kind |-> "percent", n |-> 1, d |-> 1, canon |-> <<"1">>],
      [tok |-> <<"p", "c", "t">>, kind |-> "percent", n |-> 1, d |-> 1, canon |-> <<"1">>] }

\* what the table's row e makes of the magnitude v
TableValue(e, v) ==
    CASE e.kind = "celsius" -> RAdd(v, Num(27315, 100))
      [] e.kind = "fahrenheit" -> RAdd(RMul(RSub(v, Num(32, 1)), Num(5, 9)), Num(27315, 100))
      [] e.kind = "percent" -> RMul(v, Num(1, 100))
      [] OTHER -> RMul(v, Num(e.n, e.d))

\* the normalized token of a unit text: strip, "<deg>" -> "deg", "<micro>" -> "u",
\* lower-case
TokenOf(s) ==
    LET t == StrStrip(s)
        glyph(c) == IF c = DEG THEN <<"d", "e", "g">> ELSE IF c = MICRO THEN <<"u">> ELSE <<LowerChar(c)>>
        F[i \in 0..Len(t)] == IF i = 0 THEN <<>> ELSE F[i - 1] \o glyph(t[i])
    IN F[Len(t)]

\* the <base>_value / <base>_unit pairs of a table, as <<value column, unit column>>
PairsOf(t) ==
    {p \in (DOMAIN t) \X (DOMAIN t) :
        \E k \in 0..Len(t[p[1]].name) :
            /\ t[p[1]].name = SubSeq(t[p[1]].name, 1, k) \o ValueSuffix
            /\ t[p[2]].name = SubSeq(t[p[1]].name, 1, k) \o UnitSuffix}

Converted == last = "convert_units_to_SI" /\ ~raised

\* C1: every row of a pair whose value is a number and whose unit is present comes
\* out of convert_units_to_SI as the specification's table says for its normalized
\* token: the transformed magnitude with the canonical unit; and with a token
\* outside the table, the value and the unit as they were received.
C1_ConversionTable ==
    Converted =>
        \A p \in PairsOf(prev) : \A r \in 1..NRows(prev) :
            LET value == prev[p[1]].cells[r]
                unit == prev[p[2]].cells[r]
            IN (IsNum(value) /\ IsText(unit)) =>
                  \A tok \in {TokenOf(unit.s)} :
                      IF \E e \in SITable : e.tok = tok
                      THEN \A e \in SITable :
                              e.tok = tok =>
                                  /\ df[p[1]].cells[r] = TableValue(e, value)
                                  /\ df[p[2]].cells[r] = Txt(e.canon)
                      ELSE /\ df[p[1]].cells[r] = value
                           /\ df[p[2]].cells[r] = unit

\* C1 witness: a table with the rows (32, "F") and (5, "lightyear") in a pair has been
\* converted: the first reads 273.15 K, the second is as it was.
C1_Witness ==
    /\ Converted
    /\ \E p \in PairsOf(prev) : \E r, q \in 1..NRows(prev) :
          /\ prev[p[1]].cells[r] = Num(32, 1) /\ prev[p[2]].cells[r] = Txt(<<"F">>)
          /\ df[p[1]].cells[r] = Num(27315, 100) /\ df[p[2]].cells[r] = Txt(<<"K">>)
          /\ prev[p[1]].cells[q] = Num(5, 1) /\ TokenOf(prev[p[2]].cells[q].s) = <<"l", "i", "g", "h", "t", "y", "e", "a", "r">>
          /\ df[p[1]].cells[q] = Num(5, 1) /\ df[p[2]].cells[q] = prev[p[2]].cells[q]

\* C2: convert_units_to_SI is idempotent: the table a second run returns is the
\* table the first run returned.
C2_Idempotent == (Converted /\ runs >= 2) => df = prev

\* C2 witness: a second run has been made on a table where the first run had turned
\* 50 degrees Celsius into 323.15 K, and the row still reads 323.15 K.
C2_Witness ==
    /\ Converted /\ runs >= 2
    /\ \E p \in PairsOf(df) : \E r \in 1..NRows(df) :
          /\ prev[p[1]].cells[r] = Num(32315, 100) /\ prev[p[2]].cells[r] = Txt(<<"K">>)
          /\ df[p[1]].cells[r] = Num(32315, 100) /\ df[p[2]].cells[r] = Txt(<<"K">>)

\* a magnitude that is present and cannot be read as a number
Unparseable(c) == IsText(c) /\ ~ParseNumber(c.s).ok

\* C3 as stated: a row of a pair whose magnitude cannot be read as a number keeps
\* both its value cell and its unit cell in the table convert_units_to_SI returns.
C3_UnparseableUntouched ==
    Converted =>
        \A p \in PairsOf(prev) : \A r \in 1..NRows(prev) :
            Unparseable(prev[p[1]].cells[r]) =>
                /\ df[p[1]].cells[r] = prev[p[1]].cells[r]
                /\ df[p[2]].cells[r] = prev[p[2]].cells[r]

\* C3 as amended: such a row keeps its unit cell, and its value cell is missing in
\* the returned table (the closing numeric coercion of the value column turns the
\* unreadable magnitude into the missing marker).
C3_UnparseableBecomesMissing ==
    Converted =>
        \A p \in PairsOf(prev) : \A r \in 1..NRows(prev) :
            Unparseable(prev[p[1]].cells[r]) =>
                /\ IsNA(df[p[1]].cells[r])
                /\ df[p[2]].cells[r] = prev[p[2]].cells[r]

\* C3 witness: the row ("abc", "C") has been converted into (missing, "C").
C3_Witness ==
    /\ Converted
    /\ \E p \in PairsOf(prev) : \E r \in 1..NRows(prev) :
          /\ prev[p[1]].cells[r] = Txt(<<"a", "b", "c">>)
          /\ prev[p[2]].cells[r] = Txt(<<"C">>)
          /\ IsNA(df[p[1]].cells[r])
          /\ df[p[2]].cells[r] = Txt(<<"C">>)

\* what the second pair of every input table must read after conversion, whatever
\* the first pair holds: 20 C, 3 km, (missing, s), 7 F
SecondPairConverted ==
    << <<Num(29315, 100), Txt(<<"K">>)>>, <<Num(3000, 1), Txt(<<"m">>)>>,
       <<NaN, Txt(<<"s">>)>>, <<Num(46667, 180), Txt(<<"K">>)>> >>

\* C9: convert_units_to_SI adds and deletes no column; a column outside every
\* complete pair (a lone <base>_value column too) is returned as it was; two rows
\* with the same value and unit, in any rows of any pairs, come out the same; and
\* the second pair comes out the same whatever the first pair in the table holds.
C9_NoCrossDependency ==
    Converted =>
        \A pairs \in {PairsOf(prev)} :
            /\ Names(df) = Names(prev)
            /\ \A i \in DOMAIN prev :
                  (\A p \in pairs : i # p[1] /\ i # p[2]) => df[i] = prev[i]
            /\ \A p, q \in pairs : \A r, s \in 1..NRows(prev) :
                  (/\ prev[p[1]].cells[r] = prev[q[1]].cells[s]
                   /\ prev[p[2]].cells[r] = prev[q[2]].cells[s])
                  => (/\ df[p[1]].cells[r] = df[q[1]].cells[s]
                      /\ df[p[2]].cells[r] = df[q[2]].cells[s])
            /\ runs = 1 =>
                  \A p \in pairs : \A r \in 1..NRows(prev) :
                      prev[p[1]].name = NameB \o ValueSuffix =>
                          /\ df[p[1]].cells[r] = SecondPairConverted[r][1]
                          /\ df[p[2]].cells[r] = SecondPairConverted[r][2]

\* C9 witness: a table with a length row in the first pair and the temperature pair
\* beside it has been converted; the lone c_value column still holds its text.
C9_Witness ==
    /\ Converted /\ runs = 1
    /\ \E p \in PairsOf(prev) : \E r \in 1..NRows(prev) :
          /\ prev[p[1]].name = NameA \o ValueSuffix
          /\ prev[p[2]].cells[r] = Txt(<<"k", "m">>)
          /\ df[p[1]].cells[r] = Num(50000, 1)
    /\ \E i \in DOMAIN df :
          /\ df[i].name = NameC \o ValueSuffix
          /\ df[i].cells[1] = Txt(<<"7">>)
          /\ df[i].dtype = "object"


\* a cell that is neither missing nor whitespace-only
HasContent(c) == ~IsNA(c) /\ ~(IsText(c) /\ IsBlank(c.s))

ContentRows(t) == {r \in 1..NRows(t) : \E i \in DOMAIN t : HasContent(t[i].cells[r])}

ContentCols(t) == {i \in DOMAIN t : \E r \in 1..NRows(t) : HasContent(t[i].cells[r])}

\* the j-th smallest element of a set of positions
Nth(set, j) == CHOOSE i \in set : Cardinality({k \in set : k < i}) = j - 1

Pruned == last = "remove_empty_rows_and_columns" /\ ~raised

\* C7: remove_empty_rows_and_columns returns exactly the columns and the rows of
\* its input that hold a cell that is neither missing nor whitespace-only, in their
\* order, with their cells (a blank one as missing); the result holds no all-missing
\* row or column; and a second run returns its input.
C7_PruneExactlyEmpty ==
    Pruned =>
        /\ Len(df) = Cardinality(ContentCols(prev))
        /\ \A j \in DOMAIN df :
              /\ df[j].name = prev[Nth(ContentCols(prev), j)].name
              /\ Len(df[j].cells) = Cardinality(ContentRows(prev))
              /\ \A q \in DOMAIN df[j].cells :
                    LET c == prev[Nth(ContentCols(prev), j)].cells[Nth(ContentRows(prev), q)]
                    IN IF HasContent(c) THEN df[j].cells[q] = c ELSE IsNA(df[j].cells[q])
        /\ \A j \in DOMAIN df : \E q \in DOMAIN df[j].cells : ~IsNA(df[j].cells[q])
        /\ \A q \in 1..NRows(df) : \E j \in DOMAIN df : ~IsNA(df[j].cells[q])
        /\ runs >= 2 => df = prev

\* C7 witness: a table with a wholly whitespace row and a populated row, and with a
\* column that holds no content, has been pruned to the populated row.
C7_Witness ==
    /\ Pruned /\ runs = 1
    /\ NRows(prev) = 2 /\ NRows(df) = 1
    /\ Len(df) < Len(prev)
    /\ \E r \in 1..2 :
          /\ \A i \in DOMAIN prev : ~HasContent(prev[i].cells[r])
          /\ \E i \in DOMAIN prev : IsText(prev[i].cells[r])

\* the sentinel vocabulary of the specification
Sentinels ==
    {<<>>, <<"n", "a">>, <<"n", "/", "a">>, <<"n", "u", "l", "l">>, <<"n", "o", "n", "e">>, <<"?">>, <<"-">>, <<".">>}

Tagged == last = "normalize_missing_values" /\ ~raised

DigitFlanked(s, p) ==
    /\ s[p] = ","
    /\ p - 1 \in DOMAIN s /\ s[p - 1] \in Digits
    /\ p + 1 \in DOMAIN s /\ s[p + 1] \in Digits

\* s with every digit-flanked comma turned into a period
CommasRepaired(s) == [p \in DOMAIN s |-> IF DigitFlanked(s, p) THEN "." ELSE s[p]]

\* a numeral grouped in thousands, such as 1,234,567: one to three digits, then two
\* or more groups of a comma and three digits
GroupedThousands(s) ==
    \E h \in 1..3 : \E g \in 2..Len(s) :
        /\ Len(s) = h + 4 * g
        /\ \A p \in DOMAIN s :
              IF p > h /\ (p - h) % 4 = 1 THEN s[p] = "," ELSE s[p] \in Digits

Repaired == last = "fix_decimal_commas" /\ ~raised

\* C8 as stated: in every text cell fix_decimal_commas turns a digit-flanked comma
\* into a period and leaves every other character, but does not touch the commas of
\* a numeral grouped in thousands.
C8_ThousandsUntouched ==
    Repaired =>
        \A i \in DOMAIN prev : \A r \in 1..NRows(prev) :
            (prev[i].dtype = "object" /\ IsText(prev[i].cells[r]) /\ df[i].dtype = "object")
            => df[i].cells[r] =
                  IF GroupedThousands(prev[i].cells[r].s)
                  THEN prev[i].cells[r]
                  ELSE Txt(CommasRepaired(prev[i].cells[r].s))

\* C8 as amended: in every text cell fix_decimal_commas turns every digit-flanked
\* comma into a period, the commas of a numeral grouped in thousands too, and leaves
\* every other character; where the whole column then reads as numbers, the cell
\* holds the number its repaired text reads as.
C8_EveryFlankedComma ==
    Repaired =>
        \A i \in DOMAIN prev : \A r \in 1..NRows(prev) :
            (prev[i].dtype = "object" /\ IsText(prev[i].cells[r]))
            => df[i].cells[r] =
                  IF df[i].dtype = "object"
                  THEN Txt(CommasRepaired(prev[i].cells[r].s))
                  ELSE ParseNumber(CommasRepaired(prev[i].cells[r].s)).val

\* C8 witness: the cells "1,234,567" and "5," stand in a repaired column as
\* "1.234.567" and "5,", beside a column of numerals now read as numbers.
C8_Witness ==
    /\ Repaired
    /\ \E i \in DOMAIN prev : \E r, q \in 1..NRows(prev) :
          /\ prev[i].cells[r] = Txt(<<"1", ",", "2", "3", "4", ",", "5", "6", "7">>) /\ df[i].cells[r] = Txt(<<"1", ".", "2", "3", "4", ".", "5", "6", "7">>)
          /\ prev[i].cells[q] = Txt(<<"5", ",">>) /\ df[i].cells[q] = Txt(<<"5", ",">>)
    /\ \E i \in DOMAIN prev :
          /\ prev[i].cells[1] = Txt(<<"2", ",", "5">>) /\ df[i].cells[1] = Num(5, 2)

\* equal cells, one missing marker counting as the other
SameCell(a, b) == (IsNA(a) /\ IsNA(b)) \/ a = b

\* tables with the same column names in the same order and the same cells
SameTable(t, u) ==
    /\ Names(t) = Names(u)
    /\ \A i \in DOMAIN t :
          /\ DOMAIN t[i].cells = DOMAIN u[i].cells
          /\ \A r \in DOMAIN t[i].cells : SameCell(t[i].cells[r], u[i].cells[r])

\* a text cell that matches the numeral+unit pattern
Matches(c) == IsText(c) /\ PatternMatch(c.s).ok

\* a text column with at least one matching cell
Promoted(col) == col.dtype = "object" /\ \E r \in DOMAIN col.cells : Matches(col.cells[r])

\* the numeral of a matching cell, its comma read as a point
NumeralOf(c) == ParseNumber(StrReplace(PatternMatch(c.s).num, ",", <<".">>)).val

\* the table the specification describes: every promoted column replaced where it
\* stands by its <name>_value and <name>_unit columns, every other column as it is
RECURSIVE SplitFrom(_, _)
SplitFrom(t, i) ==
    IF i > Len(t) THEN <<>>
    ELSE (IF Promoted(t[i])
          THEN << Col(t[i].name \o ValueSuffix, "numeric",
                      [r \in DOMAIN t[i].cells |->
                          IF Matches(t[i].cells[r]) THEN NumeralOf(t[i].cells[r]) ELSE NaN]),
                  Col(t[i].name \o UnitSuffix, "object",
                      [r \in DOMAIN t[i].cells |->
                          IF Matches(t[i].cells[r])
                          THEN Txt(PatternMatch(t[i].cells[r].s).unit) ELSE NaN]) >>
          ELSE <<t[i]>>) \o SplitFrom(t, i + 1)

Split == last = "extract_numeric_and_unit" /\ ~raised

\* C5 as stated: extract_numeric_and_unit returns its input with every text column
\* that has a matching cell replaced, where it stands, by <name>_value (the numerals,
\* missing where the cell does not match) and <name>_unit (the unit tokens, missing
\* likewise), and with every other column unchanged, in the same order.
C5_PromotedInPlace == Split => SameTable(df, SplitFrom(prev, 1))

Staged == last # "load" /\ ~raised

\* C6 as stated: a table with pairwise distinct column names comes out of a stage
\* with pairwise distinct column names, and every column extract_numeric_and_unit
\* does not split is still in its result with its cells.
C6_NamesStayUnique ==
    (Staged /\ ~HasDupNames(prev)) =>
        /\ ~HasDupNames(df)
        /\ Split =>
              \A i \in DOMAIN prev :
                  ~Promoted(prev[i]) =>
                      \E j \in DOMAIN df :
                          df[j].name = prev[i].name /\ df[j].cells = prev[i].cells

\* C10 as stated: in a run of the stages in pipeline order, a cell that is missing
\* before a stage and retained by it is missing after it: at the same place for the
\* stages that keep the table's shape, at its place among the kept rows and columns
\* for remove_empty_rows_and_columns, and in <name>_value and <name>_unit (or in the
\* unsplit column) for extract_numeric_and_unit.
C10_MissingStaysMissing ==
    Staged =>
        CASE last = "remove_empty_rows_and_columns" ->
                \A j \in DOMAIN df : \A q \in DOMAIN df[j].cells :
                    IsNA(prev[Nth(ContentCols(prev), j)].cells[Nth(ContentRows(prev), q)])
                    => IsNA(df[j].cells[q])
          [] last = "extract_numeric_and_unit" ->
                \A i \in DOMAIN prev : \A r \in DOMAIN prev[i].cells :
                    IsNA(prev[i].cells[r]) =>
                        \A j \in DOMAIN df :
                            df[j].name \in {prev[i].name, prev[i].name \o ValueSuffix,
                                            prev[i].name \o UnitSuffix}
                            => IsNA(df[j].cells[r])
          [] OTHER ->
                \A i \in DOMAIN prev : \A r \in DOMAIN prev[i].cells :
                    IsNA(prev[i].cells[r]) => IsNA(df[i].cells[r])

====
